---- MODULE Spec2Model ----
(***************************************************************************)
(* A model of sweepy: the subscription store (db.py), the interactive      *)
(* subscribe request (la_sweep_bot.handle_subscribe), the sweep calendar   *)
(* (la_sweep_bot.next_sweep_dates) and the daily notification run          *)
(* (la_sweep_bot.send_notifications).                                      *)
(*                                                                         *)
(* Strings the code inspects character by character (the schedule code)    *)
(* are sequences of one-character strings.  A calendar date is its ordinal *)
(* in 2026 (1 = 2026-01-01, 366 = 2027-01-01).  A coordinate is an integer *)
(* number of thirds of 0.0001 degree, so that rounding to 4 decimals is a  *)
(* real operation with no exact ties.                                      *)
(***************************************************************************)
EXTENDS Integers, Sequences, FiniteSets, TLC

VARIABLES
    store,          \* the subscriptions table: a set of rows
    seq,            \* sqlite_sequence: the largest id ever assigned
    base,           \* the value of seq the behaviour started from
    ret,            \* the last completed store call: its arguments and result
    reqs,           \* add_subscription requests in flight, by request number
    today,          \* datetime.now(LA_TZ).date()
    pc,             \* position of send_notifications
    all_subs,       \* send_notifications: the fetched working list
    idx,            \* send_notifications: index of the subscription in hand
    msg,            \* send_notifications: the message built for it
    blocked_chats,  \* send_notifications: owners found unreachable in this run
    sent            \* the transport's log: every send_message call of the run

vars == <<store, seq, base, ret, reqs, today, pc, all_subs, idx, msg, blocked_chats, sent>>

runVars == <<today, pc, all_subs, idx, msg, blocked_chats, sent>>

-----------------------------------------------------------------------------
(* Bounds and input sets *)

\* The number of ids the store assigns in a behaviour, on top of those of the
\* rows it started with (caps the id counter).
MaxNew == 1

\* The number of add_subscription requests of a concurrent behaviour.
MaxRequests == 2

\* The number of rows of the store a notification run starts from.
MaxSubs == 3

\* The largest count next_sweep_dates is called with (the bot passes 2 and 3).
MaxCount == 3

\* The last date looked up in the calendar: the ordinal of 2027-01-07.
MaxDate == 372

Owners == {100, 200}

\* None, where the code allows it (sweep_time, street_name).
NONE == "<None>"

\* Schedule codes, as the character sequences _valid_weeks searches.
S13 == <<"1", " ", "&", " ", "3">>
S24 == <<"2", " ", "&", " ", "4">>
S2nd4th == <<"2", "n", "d", " ", "&", " ", "4", "t", "h">>
SAll == <<"e", "v", "e", "r", "y">>

\* The addresses users submit.  The geocoder and the spatial query are
\* external: an address stands for what they return for it, the point
\* (GeoX, GeoY) in thirds of 0.0001 degree from a reference point that is
\* itself a multiple of 0.0001, the matched label and the sweep details.
\* Addresses 1 and 2 are two points that round to one location and differ
\* in every other field.
Addresses == 1..7
GeoX == <<0, 1, 2, 0, -2, -2, 2>>
GeoY == <<0, -1, 0, 2, 0, 2, 2>>
GeoLabel == <<"A1", "A2", "A3", "A4", "A5", "A6", "A7">>

Details(a) ==
    IF a = 2
    THEN [sweep_days |-> <<"Tuesday", "Thursday">>, sweep_schedule |-> S24,
          sweep_time |-> "10am-12pm", street_name |-> "VENICE BLVD"]
    ELSE [sweep_days |-> <<"Monday">>, sweep_schedule |-> S13,
          sweep_time |-> NONE, street_name |-> "MAIN ST"]

\* The addresses each owner submits: the second owner is there to observe
\* that owners do not interfere, and submits the two variants of one location.
AddressesOf(chat_id) == IF chat_id = 100 THEN Addresses ELSE {1, 2}

-----------------------------------------------------------------------------
(* db.py *)

MAX_SUBSCRIPTIONS_PER_USER == 5

\* round(v, 4) of a coordinate given in thirds of 0.0001: the nearest
\* multiple of 0.0001, as a number of 0.0001s.
round4(v) == (v + 1) \div 3

\* json.dumps of a list of strings: "[", the quoted items separated by ", ", "]".
RECURSIVE json_items(_)
json_items(l) ==
    IF l = <<>> THEN <<>>
    ELSE IF Len(l) = 1 THEN <<[t |-> "str", v |-> l[1]]>>
    ELSE <<[t |-> "str", v |-> l[1]], [t |-> "punct", v |-> ", "]>> \o json_items(Tail(l))

json_dumps(l) ==
    <<[t |-> "punct", v |-> "["]>> \o json_items(l) \o <<[t |-> "punct", v |-> "]"]>>

\* json.loads of such a text: the items between the brackets, in order.
RECURSIVE json_loads(_)
json_loads(text) ==
    IF text = <<>> THEN <<>>
    ELSE IF text[1].t = "str" THEN <<text[1].v>> \o json_loads(Tail(text))
    ELSE json_loads(Tail(text))

\* The rows of one owner.
RowsOf(st, chat_id) == {r \in st : r.chat_id = chat_id}

\* A count that does not leave out the location being written.
CountOthers_all(st, chat_id, x, y) ==
    Cardinality({r \in st : r.chat_id = chat_id})

\* SELECT COUNT(*) FROM subscriptions WHERE chat_id = ? AND NOT (x = ? AND y = ?)
CountOthers(st, chat_id, x, y) ==
    Cardinality({r \in st : r.chat_id = chat_id /\ ~(r.x = x /\ r.y = y)})

\* A cap check that lets the count reach the cap before it refuses.
AtCap_above(count) == count > MAX_SUBSCRIPTIONS_PER_USER

\* count >= MAX_SUBSCRIPTIONS_PER_USER
AtCap(count) == count >= MAX_SUBSCRIPTIONS_PER_USER

\* A message that does not state the cap.
CapMessage_nonumber ==
    <<"You have too many subscriptions. Use /unsubscribe to remove one first.">>

\* The f-string add_subscription returns at the cap.
CapMessage ==
    <<"You already have ", ToString(MAX_SUBSCRIPTIONS_PER_USER),
      " subscriptions. Use /unsubscribe to remove one first.">>

OkResult == [err |-> FALSE, text |-> <<>>]
CapResult == [err |-> TRUE, text |-> CapMessage]

\* The row the INSERT would create, with the id the store would assign.
NewRow(id, a) ==
    [id |-> id, chat_id |-> a.chat_id, x |-> round4(a.x), y |-> round4(a.y),
     label |-> a.label, sweep_days |-> json_dumps(a.sweep_days),
     sweep_schedule |-> a.sweep_schedule, sweep_time |-> a.sweep_time,
     street_name |-> a.street_name]

\* An update that forgets one column.
UpdatedRow_keepsStreet(r, a) ==
    [r EXCEPT !.label = a.label, !.sweep_days = json_dumps(a.sweep_days),
              !.sweep_schedule = a.sweep_schedule, !.sweep_time = a.sweep_time]

\* ON CONFLICT(chat_id, x, y) DO UPDATE SET ...: the row keeps its id and key.
UpdatedRow(r, a) ==
    [r EXCEPT !.label = a.label, !.sweep_days = json_dumps(a.sweep_days),
              !.sweep_schedule = a.sweep_schedule, !.sweep_time = a.sweep_time,
              !.street_name = a.street_name]

\* A table without the UNIQUE constraint: no INSERT is ever in conflict.
Conflicts_none(st, a) == {}

\* The rows in conflict with the INSERT under UNIQUE(chat_id, x, y).
Conflicts(st, a) ==
    {r \in st : r.chat_id = a.chat_id /\ r.x = round4(a.x) /\ r.y = round4(a.y)}

\* INSERT ... ON CONFLICT DO UPDATE, and the commit: the table and the id
\* counter after it.
Upsert(st, sq, a) ==
    IF Conflicts(st, a) = {}
    THEN [store |-> st \cup {NewRow(sq + 1, a)}, seq |-> sq + 1]
    ELSE [store |-> {IF r \in Conflicts(st, a) THEN UpdatedRow(r, a) ELSE r : r \in st},
          seq |-> sq]

\* add_subscription run alone: the cap check, then the upsert.
add_subscription(st, sq, a) ==
    IF AtCap(CountOthers(st, a.chat_id, round4(a.x), round4(a.y)))
    THEN [store |-> st, seq |-> sq, result |-> CapResult]
    ELSE [store |-> Upsert(st, sq, a).store, seq |-> Upsert(st, sq, a).seq,
          result |-> OkResult]

\* A delete by id alone: DELETE FROM subscriptions WHERE id = ?
remove_subscription_anyOwner(st, chat_id, sub_id) ==
    [store |-> {r \in st : r.id # sub_id},
     rowcount |-> Cardinality({r \in st : r.id = sub_id})]

\* DELETE FROM subscriptions WHERE chat_id = ? AND id = ?
remove_subscription(st, chat_id, sub_id) ==
    [store |-> {r \in st : ~(r.chat_id = chat_id /\ r.id = sub_id)},
     rowcount |-> Cardinality({r \in st : r.chat_id = chat_id /\ r.id = sub_id})]

\* A delete without the WHERE clause: DELETE FROM subscriptions
remove_all_subscriptions_everyone(st, chat_id) ==
    [store |-> {}, rowcount |-> Cardinality(st)]

\* DELETE FROM subscriptions WHERE chat_id = ?
remove_all_subscriptions(st, chat_id) ==
    [store |-> {r \in st : r.chat_id # chat_id},
     rowcount |-> Cardinality(RowsOf(st, chat_id))]

\* An ordering by id, largest first: ORDER BY id DESC
RECURSIVE OrderById_descending(_)
OrderById_descending(rows) ==
    IF rows = {} THEN <<>>
    ELSE LET first == CHOOSE r \in rows : \A q \in rows : r.id >= q.id
         IN  <<first>> \o OrderById_descending(rows \ {first})

\* A set of rows with distinct ids as the sequence ordered by id.
RECURSIVE OrderById(_)
OrderById(rows) ==
    IF rows = {} THEN <<>>
    ELSE LET first == CHOOSE r \in rows : \A q \in rows : r.id <= q.id
         IN  <<first>> \o OrderById(rows \ {first})

\* SELECT * FROM subscriptions WHERE chat_id = ? ORDER BY id
get_user_subscriptions(st, chat_id) == OrderById(RowsOf(st, chat_id))

\* SELECT * FROM subscriptions: SQLite scans the table in rowid order.
get_all_subscriptions(st) == OrderById(st)

-----------------------------------------------------------------------------
(* Requests served one at a time *)

\* The arguments handle_subscribe passes to add_subscription for an address.
SubscribeArgs(chat_id, a) ==
    [chat_id |-> chat_id, x |-> GeoX[a], y |-> GeoY[a], label |-> GeoLabel[a],
     sweep_days |-> Details(a).sweep_days,
     sweep_schedule |-> Details(a).sweep_schedule,
     sweep_time |-> Details(a).sweep_time,
     street_name |-> Details(a).street_name]

NoCall == [op |-> "none", chat_id |-> 0, result |-> OkResult, rowcount |-> 0]

AddCall(a, result) ==
    [op |-> "add", chat_id |-> a.chat_id, result |-> result, rowcount |-> 0]

DeleteCall(op, chat_id, rowcount) ==
    [op |-> op, chat_id |-> chat_id, result |-> OkResult, rowcount |-> rowcount]

\* handle_subscribe from its add_subscription call on, the call run alone.
Subscribe(chat_id, a) ==
    LET args == SubscribeArgs(chat_id, a)
        res == add_subscription(store, seq, args)
    IN  /\ res.seq <= base + MaxNew
        /\ store' = res.store
        /\ seq' = res.seq
        /\ ret' = AddCall(args, res.result)
        /\ UNCHANGED <<base, reqs, runVars>>

\* remove_subscription, with any id: a row's, another owner's, nobody's.
RemoveSubscription(chat_id, sub_id) ==
    LET res == remove_subscription(store, chat_id, sub_id)
    IN  /\ store' = res.store
        /\ ret' = DeleteCall("remove", chat_id, res.rowcount)
        /\ UNCHANGED <<seq, base, reqs, runVars>>

\* remove_all_subscriptions.
RemoveAll(chat_id) ==
    LET res == remove_all_subscriptions(store, chat_id)
    IN  /\ store' = res.store
        /\ ret' = DeleteCall("remove_all", chat_id, res.rowcount)
        /\ UNCHANGED <<seq, base, reqs, runVars>>

\* The table after owner 100 subscribed, one request after the other, to the
\* first k of the addresses 1, 3, 4, 5, 6, which are five locations: they
\* hold the ids 1..k.  k = 0 is the empty table init_db creates.
Prefill == <<1, 3, 4, 5, 6>>

RECURSIVE Prefilled(_)
Prefilled(k) ==
    IF k = 0 THEN [store |-> {}, seq |-> 0]
    ELSE add_subscription(Prefilled(k - 1).store, Prefilled(k - 1).seq,
                          SubscribeArgs(100, Prefill[k]))

\* No run of send_notifications started.
RunIdle ==
    /\ today = 1
    /\ pc = "idle"
    /\ all_subs = <<>>
    /\ idx = 0
    /\ msg = <<>>
    /\ blocked_chats = {}
    /\ sent = <<>>

Init ==
    /\ \E k \in 0..Len(Prefill) :
          /\ store = Prefilled(k).store
          /\ seq = Prefilled(k).seq
    /\ base = seq
    /\ ret = NoCall
    /\ reqs = <<>>
    /\ RunIdle

Next ==
    \/ \E chat_id \in Owners : \E a \in AddressesOf(chat_id) : Subscribe(chat_id, a)
    \/ \E chat_id \in Owners : \E sub_id \in 1..(seq + 1) : RemoveSubscription(chat_id, sub_id)
    \/ \E chat_id \in Owners : RemoveAll(chat_id)

Spec == Init /\ [][Next]_vars

-----------------------------------------------------------------------------
(* Requests served one at a time, /mysubs and /unsubscribe among them *)

\* The largest number typed after /unsubscribe.
MaxPos == 6

\* The texts typed after /unsubscribe: numbers, "all" in two spellings,
\* nothing, and a word.
UnsubscribeTexts == {"all", "ALL", "", "first"} \cup {ToString(n) : n \in 0..MaxPos}

\* str.lower, on UnsubscribeTexts.
lower(text) == IF text = "ALL" THEN "all" ELSE text

\* str.isdigit, on UnsubscribeTexts.
isdigit(arg) == \E n \in 0..MaxPos : ToString(n) = arg

\* int(arg), for a text of digits.
int(arg) == CHOOSE n \in 0..MaxPos : ToString(n) = arg

Reply(kind, count, label) == [kind |-> kind, count |-> count, label |-> label]

\* A handler that takes the number typed for the id of the row.
handle_unsubscribe_byId(st, chat_id, text) ==
    LET arg == lower(text) IN
    IF arg = "all"
    THEN LET res == remove_all_subscriptions(st, chat_id)
         IN  [store |-> res.store,
              reply |-> IF res.rowcount # 0 THEN Reply("removed_all", res.rowcount, NONE)
                        ELSE Reply("no_subscriptions", 0, NONE)]
    ELSE IF isdigit(arg)
    THEN LET res == remove_subscription(st, chat_id, int(arg))
         IN  IF res.rowcount = 0
             THEN [store |-> st, reply |-> Reply("invalid_number", 0, NONE)]
             ELSE [store |-> res.store, reply |-> Reply("removed", 0, NONE)]
    ELSE [store |-> st, reply |-> Reply("usage", 0, NONE)]

\* handle_unsubscribe, from the argument text on: the store it leaves and
\* the reply it sends.
handle_unsubscribe(st, chat_id, text) ==
    LET arg == lower(text) IN
    IF arg = "all"
    THEN LET res == remove_all_subscriptions(st, chat_id)
         IN  [store |-> res.store,
              reply |-> IF res.rowcount # 0 THEN Reply("removed_all", res.rowcount, NONE)
                        ELSE Reply("no_subscriptions", 0, NONE)]
    ELSE IF isdigit(arg)
    THEN LET pos == int(arg)
             subs == get_user_subscriptions(st, chat_id)
         IN  IF subs = <<>> \/ pos < 1 \/ pos > Len(subs)
             THEN [store |-> st, reply |-> Reply("invalid_number", 0, NONE)]
             ELSE [store |-> remove_subscription(st, chat_id, subs[pos].id).store,
                   reply |-> Reply("removed", 0, subs[pos].label)]
    ELSE [store |-> st, reply |-> Reply("usage", 0, NONE)]

\* handle_unsubscribe, the handler run alone.
Unsubscribe(chat_id, text) ==
    LET res == handle_unsubscribe(store, chat_id, text)
    IN  /\ store' = res.store
        /\ ret' = [op |-> "unsubscribe", chat_id |-> chat_id, result |-> OkResult,
                   rowcount |-> 0, reply |-> res.reply]
        /\ UNCHANGED <<seq, base, reqs, runVars>>

\* get_user_subscriptions, as handle_mysubs (line 592) calls it.
GetUserSubscriptions(chat_id) ==
    /\ ret' = [op |-> "get_user_subscriptions", chat_id |-> chat_id, result |-> OkResult,
               rowcount |-> 0, rows |-> get_user_subscriptions(store, chat_id)]
    /\ UNCHANGED <<store, seq, base, reqs, runVars>>

\* The addresses submitted between listings: the two variants of the first
\* location, and for the first owner a location no row starts with.
ListedAddresses(chat_id) == AddressesOf(chat_id) \cap {1, 2, 7}

\* The three commands that read or write the store.
NextHandlers ==
    \/ \E chat_id \in Owners : \E a \in ListedAddresses(chat_id) : Subscribe(chat_id, a)
    \/ \E chat_id \in Owners : GetUserSubscriptions(chat_id)
    \/ \E chat_id \in Owners : \E text \in UnsubscribeTexts : Unsubscribe(chat_id, text)

SpecHandlers == Init /\ [][NextHandlers]_vars

-----------------------------------------------------------------------------
(* add_subscription requests in flight together *)

\* A request is a coroutine running add_subscription on a connection of its
\* own.  It yields at every await: between the SELECT COUNT(*) it reads the
\* cap count with and its INSERT other requests run.  Python's sqlite3 opens
\* the transaction at the INSERT, not at the SELECT, and SQLite lets one
\* connection write at a time, so INSERT and commit are one step.
Requests == 1..MaxRequests

NewRequest == [pc |-> "new", args |-> <<>>, chat_id |-> 0, result |-> OkResult]

\* db.py lines 50-56: the cap count is read and compared; at the cap the
\* request returns the error, otherwise it goes on to the INSERT.
AddCheck(i, chat_id, a) ==
    LET args == SubscribeArgs(chat_id, a)
        count == CountOthers(store, chat_id, round4(args.x), round4(args.y))
    IN  /\ reqs[i].pc = "new"
        /\ IF AtCap(count)
           THEN /\ reqs' = [reqs EXCEPT ![i] = [pc |-> "done", args |-> <<>>,
                                                chat_id |-> chat_id, result |-> CapResult]]
                /\ ret' = AddCall(args, CapResult)
           ELSE /\ reqs' = [reqs EXCEPT ![i] = [pc |-> "checked", args |-> <<args>>,
                                                chat_id |-> chat_id, result |-> OkResult]]
                /\ ret' = ret
        /\ UNCHANGED <<store, seq, base, runVars>>

\* db.py lines 58-82: the INSERT ... ON CONFLICT DO UPDATE and the commit, on
\* the table as it is now.
AddWrite(i) ==
    LET args == reqs[i].args[1]
        res == Upsert(store, seq, args)
    IN  /\ reqs[i].pc = "checked"
        /\ store' = res.store
        /\ seq' = res.seq
        /\ reqs' = [reqs EXCEPT ![i] = [pc |-> "done", args |-> <<>>,
                                        chat_id |-> args.chat_id, result |-> OkResult]]
        /\ ret' = AddCall(args, OkResult)
        /\ UNCHANGED <<base, runVars>>

\* No request of this owner but request i is between its check and its write.
OnlyRequestOf(i, chat_id) ==
    \A j \in Requests \ {i} : reqs[j].pc = "checked" => reqs[j].chat_id # chat_id

\* A request that starts while no other request of its owner is in flight.
AddCheckAlone(i, chat_id, a) ==
    /\ OnlyRequestOf(i, chat_id)
    /\ AddCheck(i, chat_id, a)

InitRequests ==
    /\ \E k \in 0..Len(Prefill) :
          /\ store = Prefilled(k).store
          /\ seq = Prefilled(k).seq
    /\ base = seq
    /\ ret = NoCall
    /\ reqs = [i \in Requests |-> NewRequest]
    /\ RunIdle

\* Requests of any owners in flight together.
NextConcurrent ==
    \/ \E i \in Requests : \E chat_id \in Owners : \E a \in AddressesOf(chat_id) :
          AddCheck(i, chat_id, a)
    \/ \E i \in Requests : AddWrite(i)

SpecConcurrent == InitRequests /\ [][NextConcurrent]_vars

\* Requests in flight together only when their owners differ.
NextOwners ==
    \/ \E i \in Requests : \E chat_id \in Owners : \E a \in AddressesOf(chat_id) :
          AddCheckAlone(i, chat_id, a)
    \/ \E i \in Requests : AddWrite(i)

SpecOwners == InitRequests /\ [][NextOwners]_vars

-----------------------------------------------------------------------------
(* la_sweep_bot.py: the sweep calendar *)

\* date(2026, month, day) as the ordinal of the day in 2026.
MonthStart == <<0, 31, 59, 90, 120, 151, 181, 212, 243, 273, 304, 334>>
date(month, day) == MonthStart[month] + day

\* date.weekday(): Monday is 0; 2026-01-01 is a Thursday.
weekday(d) == (d + 2) % 7

\* date.month for a date of 2026; 13 stands for January 2027.
MonthOf(d) ==
    IF d > 365 THEN 13
    ELSE CHOOSE m \in 1..12 : MonthStart[m] < d /\ (m = 12 \/ d <= MonthStart[m + 1])

DAY_NUM == [Monday |-> 0, Tuesday |-> 1, Wednesday |-> 2, Thursday |-> 3, Friday |-> 4]

HOLIDAYS_2026 ==
    {date(1, 1), date(1, 19), date(2, 16), date(3, 31), date(5, 25), date(7, 3),
     date(9, 7), date(11, 11), date(11, 26), date(11, 27), date(12, 25)}

\* _SWEEP_MONDAYS_2026: the anchor Mondays with their week numbers.
SWEEP_MONDAYS_2026 ==
    <<<<date(1, 5), 1>>, <<date(1, 12), 2>>, <<date(1, 19), 3>>, <<date(1, 26), 4>>,
      <<date(2, 2), 1>>, <<date(2, 9), 2>>, <<date(2, 16), 3>>, <<date(2, 23), 4>>,
      <<date(3, 2), 1>>, <<date(3, 9), 2>>, <<date(3, 16), 3>>, <<date(3, 23), 4>>,
      <<date(4, 6), 1>>, <<date(4, 13), 2>>, <<date(4, 20), 3>>, <<date(4, 27), 4>>,
      <<date(5, 4), 1>>, <<date(5, 11), 2>>, <<date(5, 18), 3>>, <<date(5, 25), 4>>,
      <<date(6, 1), 1>>, <<date(6, 8), 2>>, <<date(6, 15), 3>>, <<date(6, 22), 4>>,
      <<date(7, 6), 1>>, <<date(7, 13), 2>>, <<date(7, 20), 3>>, <<date(7, 27), 4>>,
      <<date(8, 3), 1>>, <<date(8, 10), 2>>, <<date(8, 17), 3>>, <<date(8, 24), 4>>,
      <<date(9, 7), 1>>, <<date(9, 14), 2>>, <<date(9, 21), 3>>, <<date(9, 28), 4>>,
      <<date(10, 5), 1>>, <<date(10, 12), 2>>, <<date(10, 19), 3>>, <<date(10, 26), 4>>,
      <<date(11, 2), 1>>, <<date(11, 9), 2>>, <<date(11, 16), 3>>, <<date(11, 23), 4>>,
      <<date(12, 7), 1>>, <<date(12, 14), 2>>, <<date(12, 21), 3>>, <<date(12, 28), 4>>>>

\* The anchor whose week the dict holds for date d once the module's loop has
\* run: the last of the anchors whose five days hold d, a later assignment
\* replacing an earlier one; 0 when none does.
LastAnchor(d) ==
    LET covering == {i \in 1..Len(SWEEP_MONDAYS_2026) :
                        d - SWEEP_MONDAYS_2026[i][1] \in 0..4}
    IN  IF covering = {} THEN 0
        ELSE CHOOSE i \in covering : \A j \in covering : j <= i

\* A dict that holds all seven days from each anchor on.
SWEEP_WEEK_2026_sevenDays ==
    [d \in {SWEEP_MONDAYS_2026[i][1] + offset :
                i \in 1..Len(SWEEP_MONDAYS_2026), offset \in 0..6}
        |-> SWEEP_MONDAYS_2026[
                CHOOSE i \in 1..Len(SWEEP_MONDAYS_2026) :
                    d - SWEEP_MONDAYS_2026[i][1] \in 0..6][2]]

\* The dict the module builds, as a function on the dates it holds.
SWEEP_WEEK_2026 ==
    [d \in {SWEEP_MONDAYS_2026[i][1] + offset :
                i \in 1..Len(SWEEP_MONDAYS_2026), offset \in 0..4}
        |-> SWEEP_MONDAYS_2026[LastAnchor(d)][2]]

\* substring in schedule, for a one-character substring.
Contains(schedule, c) == \E i \in 1..Len(schedule) : schedule[i] = c

\* A _valid_weeks that looks for the even weeks first.
valid_weeks_evenFirst(schedule) ==
    IF Contains(schedule, "2") /\ Contains(schedule, "4") THEN {2, 4}
    ELSE IF Contains(schedule, "1") /\ Contains(schedule, "3") THEN {1, 3}
    ELSE {1, 2, 3, 4}

\* _valid_weeks
valid_weeks(schedule) ==
    IF Contains(schedule, "1") /\ Contains(schedule, "3") THEN {1, 3}
    ELSE IF Contains(schedule, "2") /\ Contains(schedule, "4") THEN {2, 4}
    ELSE {1, 2, 3, 4}

\* A test that takes every posted week, whatever the schedule.
Qualifies_anyWeek(d, valid) ==
    /\ d \in DOMAIN SWEEP_WEEK_2026
    /\ d \notin HOLIDAYS_2026

\* A test that lets holidays through.
Qualifies_onHolidays(d, valid) ==
    /\ d \in DOMAIN SWEEP_WEEK_2026
    /\ SWEEP_WEEK_2026[d] \in valid

\* week in valid and d not in HOLIDAYS_2026, week being SWEEP_WEEK_2026.get(d):
\* None, for a date the dict lacks, is in no set.
Qualifies(d, valid) ==
    /\ d \in DOMAIN SWEEP_WEEK_2026
    /\ SWEEP_WEEK_2026[d] \in valid
    /\ d \notin HOLIDAYS_2026

\* A loop that takes only dates after today.
RECURSIVE ScanDays_afterToday(_, _, _, _, _, _, _)
ScanDays_afterToday(k, d, now, target_dow, valid, count, results) ==
    IF k >= 120 THEN results
    ELSE IF weekday(d) = target_dow /\ d \in DOMAIN SWEEP_WEEK_2026
            /\ SWEEP_WEEK_2026[d] \in valid /\ d \notin HOLIDAYS_2026 /\ d > now
         THEN IF Len(results) + 1 >= count
              THEN Append(results, d)
              ELSE ScanDays_afterToday(k + 1, d + 1, now, target_dow, valid, count,
                                       Append(results, d))
    ELSE ScanDays_afterToday(k + 1, d + 1, now, target_dow, valid, count, results)

\* The loop of next_sweep_dates from its k-th round on: d is the date in hand,
\* results the dates collected so far.
RECURSIVE ScanDays(_, _, _, _, _, _, _)
ScanDays(k, d, now, target_dow, valid, count, results) ==
    IF k >= 120 THEN results
    ELSE IF weekday(d) = target_dow /\ Qualifies(d, valid) /\ d >= now
         THEN IF Len(results) + 1 >= count
              THEN Append(results, d)
              ELSE ScanDays(k + 1, d + 1, now, target_dow, valid, count, Append(results, d))
    ELSE ScanDays(k + 1, d + 1, now, target_dow, valid, count, results)

\* A lookup of the weekday that falls back to Monday.
next_sweep_dates_defaultMonday(sweep_day_name, schedule, count, now) ==
    ScanDays(0, now, now,
             IF sweep_day_name \in DOMAIN DAY_NUM THEN DAY_NUM[sweep_day_name] ELSE 0,
             valid_weeks(schedule), count, <<>>)

\* next_sweep_dates, with the date datetime.now(LA_TZ).date() gives it.
next_sweep_dates(sweep_day_name, schedule, count, now) ==
    IF sweep_day_name \notin DOMAIN DAY_NUM THEN <<>>
    ELSE ScanDays(0, now, now, DAY_NUM[sweep_day_name], valid_weeks(schedule), count, <<>>)

\* date.strftime("%A"): the English name of the weekday.
WeekdayNames ==
    <<"Monday", "Tuesday", "Wednesday", "Thursday", "Friday", "Saturday", "Sunday">>
strftime_A(d) == WeekdayNames[weekday(d) + 1]

\* A holiday test that is never true.
InHolidays_never(d) == FALSE

\* today in HOLIDAYS_2026 (line 305)
InHolidays(d) == d \in HOLIDAYS_2026

\* An is_sweep_today that takes every posted week for a sweep week.
is_sweep_today_anyWeek(sweep_day_name, schedule, now) ==
    IF InHolidays(now) THEN FALSE
    ELSE IF strftime_A(now) # sweep_day_name THEN FALSE
    ELSE now \in DOMAIN SWEEP_WEEK_2026

\* is_sweep_today, with the date datetime.now(LA_TZ).date() gives it.
is_sweep_today(sweep_day_name, schedule, now) ==
    IF InHolidays(now) THEN FALSE
    ELSE IF strftime_A(now) # sweep_day_name THEN FALSE
    ELSE IF now \notin DOMAIN SWEEP_WEEK_2026 THEN FALSE
    ELSE SWEEP_WEEK_2026[now] \in valid_weeks(schedule)

-----------------------------------------------------------------------------
(* la_sweep_bot.py: send_notifications *)

\* Only the first weekday of the subscription is looked at.
Upcoming_firstDay(sweep_days, schedule, now) ==
    IF sweep_days = <<>> THEN <<>>
    ELSE next_sweep_dates(Head(sweep_days), schedule, 2, now)

\* upcoming: the dates of every weekday of the subscription, two for each, in
\* the order of sweep_days.
RECURSIVE Upcoming(_, _, _)
Upcoming(sweep_days, schedule, now) ==
    IF sweep_days = <<>> THEN <<>>
    ELSE next_sweep_dates(Head(sweep_days), schedule, 2, now)
             \o Upcoming(Tail(sweep_days), schedule, now)

\* sorted(): the dates in ascending order, duplicates kept.
RECURSIVE Insert(_, _)
Insert(d, l) ==
    IF l = <<>> THEN <<d>>
    ELSE IF d <= Head(l) THEN <<d>> \o l
    ELSE <<Head(l)>> \o Insert(d, Tail(l))

RECURSIVE sorted(_)
sorted(l) == IF l = <<>> THEN <<>> ELSE Insert(Head(l), sorted(Tail(l)))

NoMessage == <<>>

\* The message built for a subscription: its kind and what the text shows.
Message(kind, sub, sweep_date) ==
    <<[kind |-> kind, label |-> sub.label,
       street |-> IF sub.street_name = NONE THEN "Your street" ELSE sub.street_name,
       date |-> sweep_date,
       time |-> IF sub.sweep_time = NONE THEN "Check posted signs" ELSE sub.sweep_time]>>

\* A loop that does not stop at tomorrow's date: a later date replaces the message.
RECURSIVE ScanUpcoming_nobreak(_, _, _, _, _)
ScanUpcoming_nobreak(dates, sub, tomorrow, day_after, m) ==
    IF dates = <<>> THEN m
    ELSE IF Head(dates) = tomorrow
         THEN ScanUpcoming_nobreak(Tail(dates), sub, tomorrow, day_after,
                                   Message("tomorrow", sub, Head(dates)))
    ELSE IF Head(dates) = day_after
         THEN ScanUpcoming_nobreak(Tail(dates), sub, tomorrow, day_after,
                                   Message("2days", sub, Head(dates)))
    ELSE ScanUpcoming_nobreak(Tail(dates), sub, tomorrow, day_after, m)

\* A loop without the elif branch: the day after's date builds nothing.
RECURSIVE ScanUpcoming_noElif(_, _, _, _, _)
ScanUpcoming_noElif(dates, sub, tomorrow, day_after, m) ==
    IF dates = <<>> THEN m
    ELSE IF Head(dates) = tomorrow THEN Message("tomorrow", sub, Head(dates))
    ELSE ScanUpcoming_noElif(Tail(dates), sub, tomorrow, day_after, m)

\* for sweep_date in sorted(upcoming): tomorrow's date builds its message and
\* breaks; the day after's builds its message and goes on.
RECURSIVE ScanUpcoming(_, _, _, _, _)
ScanUpcoming(dates, sub, tomorrow, day_after, m) ==
    IF dates = <<>> THEN m
    ELSE IF Head(dates) = tomorrow THEN Message("tomorrow", sub, Head(dates))
    ELSE IF Head(dates) = day_after
         THEN ScanUpcoming(Tail(dates), sub, tomorrow, day_after,
                           Message("2days", sub, Head(dates)))
    ELSE ScanUpcoming(Tail(dates), sub, tomorrow, day_after, m)

\* Lines 685-714: the message for one subscription, or none.
BuildMessage(sub, now) ==
    ScanUpcoming(sorted(Upcoming(json_loads(sub.sweep_days), sub.sweep_schedule, now)),
                 sub, now + 1, now + 2, NoMessage)

\* What send_message does: it returns, raises Forbidden, or raises another error.
Outcomes == {"ok", "Forbidden", "error"}

\* A handler that takes every failure for a permanent one.
IsPermanent_any(outcome) == outcome # "ok"

\* except Forbidden
IsPermanent(outcome) == outcome = "Forbidden"

\* A run without the except Exception clause: the error leaves the job.
AfterDelivery_raise(outcome) ==
    IF IsPermanent(outcome) THEN "purge"
    ELSE IF outcome = "ok" THEN "loop" ELSE "failed"

\* Where the run goes after send_message: to the purge in except Forbidden,
\* else (delivered, or logged by except Exception) to the next subscription.
AfterDelivery(outcome) == IF IsPermanent(outcome) THEN "purge" ELSE "loop"

\* A handler that forgets to record the owner.
BlockedAfter_forget(blocked, chat_id, outcome) == blocked

\* blocked_chats after send_message: except Forbidden adds the owner.
BlockedAfter(blocked, chat_id, outcome) ==
    IF IsPermanent(outcome) THEN blocked \cup {chat_id} ELSE blocked

\* Lines 674-681: the run starts, fetches every subscription and holds no
\* blocked owner.
Fetch ==
    /\ pc = "idle"
    /\ all_subs' = get_all_subscriptions(store)
    /\ blocked_chats' = {}
    /\ idx' = 1
    /\ msg' = NoMessage
    /\ sent' = <<>>
    /\ pc' = "loop"
    /\ UNCHANGED <<store, seq, base, ret, reqs, today>>

\* The list is exhausted: the run returns.
Finish ==
    /\ pc = "loop"
    /\ idx > Len(all_subs)
    /\ pc' = "done"
    /\ UNCHANGED <<store, seq, base, ret, reqs, today, all_subs, idx, msg, blocked_chats, sent>>

\* A loop body without the blocked_chats test of lines 683-684.
Classify_noSkip ==
    /\ pc = "loop"
    /\ idx <= Len(all_subs)
    /\ msg' = BuildMessage(all_subs[idx], today)
    /\ pc' = IF msg' = NoMessage THEN "loop" ELSE "send"
    /\ idx' = IF msg' = NoMessage THEN idx + 1 ELSE idx
    /\ UNCHANGED <<store, seq, base, ret, reqs, today, all_subs, blocked_chats, sent>>

\* Lines 682-716 for the subscription in hand: skipped when its owner is
\* blocked, passed over when no message is built, else on to the delivery.
Classify ==
    /\ pc = "loop"
    /\ idx <= Len(all_subs)
    /\ msg' = IF all_subs[idx].chat_id \in blocked_chats THEN NoMessage
              ELSE BuildMessage(all_subs[idx], today)
    /\ pc' = IF msg' = NoMessage THEN "loop" ELSE "send"
    /\ idx' = IF msg' = NoMessage THEN idx + 1 ELSE idx
    /\ UNCHANGED <<store, seq, base, ret, reqs, today, all_subs, blocked_chats, sent>>

\* Lines 717-726 up to the purge: send_message and the except clauses.
Deliver(outcome) ==
    /\ pc = "send"
    /\ LET sub == all_subs[idx]
       IN  /\ sent' = Append(sent, [chat_id |-> sub.chat_id, sub_id |-> sub.id,
                                    kind |-> msg[1].kind, outcome |-> outcome])
           /\ blocked_chats' = BlockedAfter(blocked_chats, sub.chat_id, outcome)
    /\ pc' = AfterDelivery(outcome)
    /\ idx' = IF pc' = "loop" THEN idx + 1 ELSE idx
    /\ msg' = NoMessage
    /\ UNCHANGED <<store, seq, base, ret, reqs, today, all_subs>>

\* A purge that empties the table.
Purge_wholeTable ==
    /\ pc = "purge"
    /\ store' = {}
    /\ ret' = DeleteCall("remove_all", all_subs[idx].chat_id, Cardinality(store))
    /\ pc' = "loop"
    /\ idx' = idx + 1
    /\ UNCHANGED <<seq, base, reqs, today, all_subs, msg, blocked_chats, sent>>

\* Line 724: remove_all_subscriptions for the owner just blocked.
Purge ==
    /\ pc = "purge"
    /\ LET res == remove_all_subscriptions(store, all_subs[idx].chat_id)
       IN  /\ store' = res.store
           /\ ret' = DeleteCall("remove_all", all_subs[idx].chat_id, res.rowcount)
    /\ pc' = "loop"
    /\ idx' = idx + 1
    /\ UNCHANGED <<seq, base, reqs, today, all_subs, msg, blocked_chats, sent>>

\* The sweep details of the subscriptions a run finds in the store.
RunDetails ==
    {[sweep_days |-> <<"Tuesday", "Monday">>, sweep_schedule |-> S24,
      sweep_time |-> "8am-10am", street_name |-> "MAIN ST"],
     [sweep_days |-> <<"Monday", "Tuesday">>, sweep_schedule |-> S13,
      sweep_time |-> NONE, street_name |-> NONE]}

\* The days a run is started on: Monday 2026-03-02 (first week), the Friday,
\* the Saturday and the Sunday before Monday 2026-03-09 (second week), the
\* Saturday and the Sunday before the holiday 2026-01-19 (third week), and
\* the Sunday before the unposted days 2026-03-30 and 31.
RunDays ==
    {date(3, 2), date(3, 6), date(3, 7), date(3, 8), date(1, 17), date(1, 18), date(3, 29)}

\* The row with id i of the store a run starts from: subscribed by any owner,
\* at the i-th location of Prefill, with any of the details.
RunRow(i, chat_id, details) ==
    NewRow(i, [chat_id |-> chat_id, x |-> GeoX[Prefill[i]], y |-> GeoY[Prefill[i]],
               label |-> GeoLabel[Prefill[i]], sweep_days |-> details.sweep_days,
               sweep_schedule |-> details.sweep_schedule,
               sweep_time |-> details.sweep_time, street_name |-> details.street_name])

\* A store of MaxSubs rows, as that many subscribe requests leave it, and
\* the day of the run.
InitRun ==
    /\ \E owner \in [1..MaxSubs -> Owners] : \E details \in [1..MaxSubs -> RunDetails] :
          store = {RunRow(i, owner[i], details[i]) : i \in 1..MaxSubs}
    /\ seq = MaxSubs
    /\ base = seq
    /\ ret = NoCall
    /\ reqs = <<>>
    /\ today \in RunDays
    /\ pc = "idle"
    /\ all_subs = <<>>
    /\ idx = 0
    /\ msg = NoMessage
    /\ blocked_chats = {}
    /\ sent = <<>>

NextRun ==
    \/ Fetch
    \/ Classify
    \/ \E outcome \in Outcomes : Deliver(outcome)
    \/ Purge
    \/ Finish

\* Classify can take a step exactly when the loop holds a subscription: it
\* always moves pc or idx.
ClassifyEnabled == pc = "loop" /\ idx <= Len(all_subs)

\* The event loop resumes the job after every await, and send_message returns
\* or raises: the run takes its next step as long as it has one.  The last
\* conjunct is WF_vars(Classify) with ENABLED <<Classify>>_vars written out.
RunFairness ==
    /\ WF_vars(Fetch)
    /\ WF_vars(\E outcome \in Outcomes : Deliver(outcome))
    /\ WF_vars(Purge)
    /\ WF_vars(Finish)
    /\ ([]<>(~ClassifyEnabled) \/ []<><<Classify>>_vars)

SpecRun == InitRun /\ [][NextRun]_vars /\ RunFairness

-----------------------------------------------------------------------------
(* Calls of the sweep projector: format_street_summary (lines 336-342) and *)
(* send_notifications (line 691) call is_sweep_today and next_sweep_dates  *)
(* with the weekday names and the schedule code of the route.              *)

\* The days of 2026 a call is made on.
CallDays == 1..365

\* Weekday names as the route service gives them, and names that are none.
CallNames == {"Monday", "Tuesday", "Wednesday", "Thursday", "Friday", "Saturday", "", "Mondy"}

Schedules == {S13, S24, S2nd4th, SAll}

\* Whether the last call was next_sweep_dates with these arguments.
SameCall(sweep_day_name, schedule, count) ==
    /\ ret.op = "next_sweep_dates"
    /\ ret.sweep_day_name = sweep_day_name
    /\ ret.schedule = schedule
    /\ ret.count = count

\* next_sweep_dates(sweep_day_name, schedule, count) returns.  A behaviour
\* makes one call and then repeats it any number of times on the same day.
CallNextSweepDates(sweep_day_name, schedule, count) ==
    /\ pc = "idle"
    /\ ret = NoCall \/ SameCall(sweep_day_name, schedule, count)
    /\ ret' = [op |-> "next_sweep_dates", sweep_day_name |-> sweep_day_name,
               schedule |-> schedule, count |-> count,
               result |-> next_sweep_dates(sweep_day_name, schedule, count, today),
               again |-> SameCall(sweep_day_name, schedule, count)]
    /\ UNCHANGED <<store, seq, base, reqs, runVars>>

\* is_sweep_today(sweep_day_name, schedule) returns.
CallIsSweepToday(sweep_day_name, schedule) ==
    /\ pc = "idle"
    /\ ret = NoCall
    /\ ret' = [op |-> "is_sweep_today", sweep_day_name |-> sweep_day_name,
               schedule |-> schedule, count |-> 0,
               result |-> is_sweep_today(sweep_day_name, schedule, today),
               again |-> FALSE]
    /\ UNCHANGED <<store, seq, base, reqs, runVars>>

\* The process on some day of 2026, no call made yet.
InitCalls ==
    /\ store = {}
    /\ seq = 0
    /\ base = 0
    /\ ret = NoCall
    /\ reqs = <<>>
    /\ today \in CallDays
    /\ pc = "idle"
    /\ all_subs = <<>>
    /\ idx = 0
    /\ msg = NoMessage
    /\ blocked_chats = {}
    /\ sent = <<>>

NextCalls ==
    \/ \E sweep_day_name \in CallNames : \E schedule \in Schedules : \E count \in 0..MaxCount :
          CallNextSweepDates(sweep_day_name, schedule, count)
    \/ \E sweep_day_name \in CallNames : \E schedule \in Schedules :
          CallIsSweepToday(sweep_day_name, schedule)

SpecCalls == InitCalls /\ [][NextCalls]_vars

-----------------------------------------------------------------------------
(* Lookups in the posted-week calendar *)

\* SWEEP_WEEK_2026.get(d): the week number, or None, which 0 stands for.
Lookup(d) ==
    /\ pc = "idle"
    /\ ret' = [op |-> "get", d |-> d,
               result |-> IF d \in DOMAIN SWEEP_WEEK_2026 THEN SWEEP_WEEK_2026[d] ELSE 0]
    /\ UNCHANGED <<store, seq, base, reqs, runVars>>

InitCalendar ==
    /\ store = {}
    /\ seq = 0
    /\ base = 0
    /\ ret = NoCall
    /\ reqs = <<>>
    /\ RunIdle

NextCalendar == \E d \in 1..MaxDate : Lookup(d)

SpecCalendar == InitCalendar /\ [][NextCalendar]_vars

-----------------------------------------------------------------------------
(* Calls of _valid_weeks on schedule texts *)

\* The longest text made of ScheduleChars a call is given.
MaxLen == 4

\* The week markers and two characters that are none.
ScheduleChars == {"1", "2", "3", "4", "&", "x"}

\* The texts of at most n characters, the empty text among them.
Texts(n) == UNION {[1..k -> ScheduleChars] : k \in 0..n}

ScheduleTexts == Texts(MaxLen) \cup Schedules

\* _valid_weeks(schedule) returns.
CallValidWeeks(schedule) ==
    /\ pc = "idle"
    /\ ret = NoCall
    /\ ret' = [op |-> "valid_weeks", schedule |-> schedule,
               result |-> valid_weeks(schedule)]
    /\ UNCHANGED <<store, seq, base, reqs, runVars>>

InitWeeks ==
    /\ store = {}
    /\ seq = 0
    /\ base = 0
    /\ ret = NoCall
    /\ reqs = <<>>
    /\ RunIdle

NextWeeks == \E schedule \in ScheduleTexts : CallValidWeeks(schedule)

SpecWeeks == InitWeeks /\ [][NextWeeks]_vars

-----------------------------------------------------------------------------
(* get_sweep_details on the records the route service returns *)

\* The most records one spatial query returns here (the request asks for at
\* most 10).
MaxRoutes == 3

\* A feature's attributes.  The request names its outFields, so every record
\* has every field, with null (NONE) for a missing value.  The suffix, the
\* schedule code and the time go with the street and the weekday.
RouteRecord(day, stname) ==
    [Posted_Day |-> day, STNAME |-> stname,
     STSFX |-> IF stname = "Main" THEN "St" ELSE IF stname = "Venice" THEN "Blvd" ELSE NONE,
     Weeks |-> IF stname = "Main" THEN S13 ELSE S24,
     Posted_Time |-> IF day = "Monday" THEN "8am-10am"
                     ELSE IF day = "Tuesday" /\ stname = "Venice" THEN "10am-12pm"
                     ELSE NONE]

RouteRecords ==
    {RouteRecord(day, stname) : day \in {NONE, "", "Monday", "Tuesday"},
                                stname \in {"Main", "Venice"}}
        \cup {RouteRecord("Monday", NONE)}

\* The answers of at most n records.
RouteLists(n) == UNION {[1..k -> RouteRecords] : k \in 0..n}

\* Python truth of a field: None and '' are false.
Truthy(v) == v # NONE /\ v # ""

\* isinstance(v, str), for a field that is a string or None.
isinstance_str(v) == v # NONE

\* list(dict.fromkeys(values)): the first occurrence of each value, in order.
RECURSIVE fromkeys(_)
fromkeys(values) ==
    IF values = <<>> THEN <<>>
    ELSE LET front == fromkeys(SubSeq(values, 1, Len(values) - 1))
             last == values[Len(values)]
         IN  IF \E i \in 1..Len(front) : front[i] = last THEN front
             ELSE Append(front, last)

\* The street of the first record: no vote.
most_common_first(routes) == routes[1].STNAME

\* Counter(STNAME of routes).most_common(1)[0][0]: the street with the
\* largest count, the first counted among equals.
most_common(routes) ==
    LET count(name) == Cardinality({i \in 1..Len(routes) : routes[i].STNAME = name})
        best == CHOOSE i \in 1..Len(routes) :
                    /\ \A j \in 1..Len(routes) :
                          count(routes[j].STNAME) <= count(routes[i].STNAME)
                    /\ \A j \in 1..(i - 1) :
                          count(routes[j].STNAME) < count(routes[i].STNAME)
    IN  routes[best].STNAME

\* str.upper, on the names and suffixes of RouteRecords.
upper(text) ==
    IF text = "Main" THEN "MAIN" ELSE IF text = "Venice" THEN "VENICE"
    ELSE IF text = "St" THEN "ST" ELSE IF text = "Blvd" THEN "BLVD" ELSE text

\* sep.join(parts), as the sequence of the parts and the separators.
RECURSIVE join(_, _)
join(sep, parts) ==
    IF Len(parts) <= 1 THEN parts
    ELSE <<parts[1], sep>> \o join(sep, Tail(parts))

\* {"found": False}
NotFound == [found |-> FALSE]

\* get_sweep_details, given what the query within 200 ft and the query
\* within 500 ft return.
get_sweep_details(near, far) ==
    LET raw_routes == IF near = <<>> THEN far ELSE near
        posted == SelectSeq(raw_routes, LAMBDA r : Truthy(r.Posted_Day))
        routes == IF posted # <<>>
                  THEN SelectSeq(posted, LAMBDA r : r.STNAME = most_common(posted))
                  ELSE posted
        days == fromkeys(SelectSeq([i \in 1..Len(routes) |-> routes[i].Posted_Day],
                                   isinstance_str))
        times == fromkeys(SelectSeq([i \in 1..Len(routes) |-> routes[i].Posted_Time],
                                    isinstance_str))
        names == SelectSeq(<<routes[1].STNAME, routes[1].STSFX>>, Truthy)
    IN  IF routes = <<>> THEN NotFound
        ELSE [found |-> TRUE, routes |-> routes, sweep_days |-> days,
              sweep_schedule |-> routes[1].Weeks,
              sweep_time |-> IF times # <<>> THEN join(", ", times) ELSE NONE,
              street_name |-> join(" ", [i \in 1..Len(names) |-> upper(names[i])])]

\* What the query within 500 ft returns: it is made when the query within
\* 200 ft returned nothing.
FarAnswers(near) == IF near = <<>> THEN RouteLists(MaxRoutes) ELSE {<<>>}

\* get_sweep_details returns, once in a behaviour.
GetSweepDetails ==
    /\ pc = "idle"
    /\ ret = NoCall
    /\ \E near \in RouteLists(MaxRoutes) : \E far \in FarAnswers(near) :
          ret' = [op |-> "get_sweep_details", near |-> near, far |-> far,
                  result |-> get_sweep_details(near, far)]
    /\ UNCHANGED <<store, seq, base, reqs, runVars>>

InitDetails ==
    /\ store = {}
    /\ seq = 0
    /\ base = 0
    /\ ret = NoCall
    /\ reqs = <<>>
    /\ RunIdle

NextDetails == GetSweepDetails

SpecDetails == InitDetails /\ [][NextDetails]_vars

-----------------------------------------------------------------------------
(* /unsubscribe requests served while a notification run is under way *)

\* The run is suspended in an await and the event loop serves other
\* handlers: in get_all_subscriptions after the rows were read (db.py lines
\* 121-123, the fetch and the closing of the connection), in send_message
\* (line 718), in remove_all_subscriptions (line 724).
AwaitInFlight ==
    \/ pc = "loop" /\ idx = 1 /\ sent = <<>>
    \/ pc = "send"
    \/ pc = "purge"

\* handle_unsubscribe served while the run is suspended.
UnsubscribeDuringRun(chat_id, text) ==
    /\ AwaitInFlight
    /\ Unsubscribe(chat_id, text)

NextInterleaved ==
    \/ NextRun
    \/ \E chat_id \in Owners : \E text \in UnsubscribeTexts :
          UnsubscribeDuringRun(chat_id, text)

SpecInterleaved == InitRun /\ [][NextInterleaved]_vars

-----------------------------------------------------------------------------
(* The store under requests served one at a time *)

Range(s) == {s[i] : i \in 1..Len(s)}

Held(chat_id) == Cardinality(RowsOf(store, chat_id))

\* The step completes an add_subscription call of this owner.
IsAdd(chat_id) == ret'.op = "add" /\ ret'.chat_id = chat_id

\* C1: whatever sequence of add_subscription, remove_subscription and
\* remove_all_subscriptions calls ran one at a time, every owner holds at
\* most 5 subscriptions.
C1_CapHolds == \A chat_id \in Owners : Held(chat_id) <= 5

\* An owner reached 5 rows by an add_subscription of this behaviour.
C1_Witness ==
    \E chat_id \in Owners :
        /\ Held(chat_id) = 5
        /\ ret.op = "add" /\ ret.chat_id = chat_id
        /\ \E r \in RowsOf(store, chat_id) : r.id > base

\* No two rows share the owner and the rounded coordinates.
UniqueKeys ==
    \A r, q \in store : (r.chat_id = q.chat_id /\ r.x = q.x /\ r.y = q.y) => r = q

\* The row an add_subscription with arguments a leaves at an existing row old.
Replaced(old, a) ==
    [id |-> old.id, chat_id |-> old.chat_id, x |-> old.x, y |-> old.y,
     label |-> a.label, sweep_days |-> json_dumps(a.sweep_days),
     sweep_schedule |-> a.sweep_schedule, sweep_time |-> a.sweep_time,
     street_name |-> a.street_name]

\* The rows whose owner and coordinates are those add_subscription writes for a.
SameKey(st, a) ==
    {r \in st : r.chat_id = a.chat_id /\ r.x = round4(a.x) /\ r.y = round4(a.y)}

\* C4: no two rows share (owner, rounded x, rounded y); an add_subscription
\* at the owner and rounded coordinates of an existing row creates no row:
\* the number of rows and the row's id stay, and label, sweep_days,
\* sweep_schedule, sweep_time and street_name are those of the call.
C4_UpsertInPlace ==
    /\ []UniqueKeys
    /\ [][\A chat_id \in Owners : \A a \in Addresses :
            LET args == SubscribeArgs(chat_id, a) IN
            (IsAdd(chat_id) /\ Subscribe(chat_id, a) /\ SameKey(store, args) # {}) =>
                /\ Cardinality(store') = Cardinality(store)
                /\ seq' = seq
                /\ \E old \in SameKey(store, args) :
                      /\ store' = (store \ {old}) \cup {Replaced(old, args)}
                      /\ json_loads(Replaced(old, args).sweep_days) = args.sweep_days]_vars

\* A row the behaviour started with carries the fields of address 2, which
\* only a later add_subscription at its location can have written.
C4_Witness ==
    /\ ret.op = "add" /\ ~ret.result.err
    /\ \E r \in store : r.id <= base /\ r.label = "A2" /\ r.street_name = "VENICE BLVD"

\* C5: add_subscription for an owner holding 5 subscriptions at other
\* locations returns an error message stating the cap, 5, and leaves the
\* store as it was.
C5_CapRefused ==
    [][\A chat_id \in Owners : \A a \in Addresses :
        LET args == SubscribeArgs(chat_id, a) IN
        (/\ IsAdd(chat_id)
         /\ Subscribe(chat_id, a)
         /\ Cardinality(RowsOf(store, chat_id) \ SameKey(store, args)) >= 5) =>
            /\ store' = store
            /\ seq' = seq
            /\ ret'.result.err
            /\ "5" \in Range(ret'.result.text)]_vars

\* The last call was an add_subscription that was refused, its owner holding 5.
C5_Witness ==
    /\ ret.op = "add" /\ ret.result.err
    /\ Held(ret.chat_id) = 5

\* C6: add_subscription for an owner holding exactly 5 subscriptions, at the
\* rounded location of one of them, returns no error, writes the call's
\* fields to that subscription and leaves the owner with exactly 5.
C6_ResubscribeAtCap ==
    [][\A chat_id \in Owners : \A a \in Addresses :
        LET args == SubscribeArgs(chat_id, a) IN
        (/\ IsAdd(chat_id)
         /\ Subscribe(chat_id, a)
         /\ Held(chat_id) = 5
         /\ SameKey(store, args) # {}) =>
            /\ ~ret'.result.err
            /\ Cardinality(RowsOf(store', chat_id)) = 5
            /\ \E old \in SameKey(store, args) : Replaced(old, args) \in store']_vars

\* Owner 100 still holds the 5 rows the behaviour started with, one of them
\* now with the fields of address 2: the last call, a successful
\* add_subscription of owner 100, found the owner at the cap.
C6_Witness ==
    /\ ret.op = "add" /\ ret.chat_id = 100 /\ ~ret.result.err
    /\ Held(100) = 5
    /\ \A r \in RowsOf(store, 100) : r.id <= base
    /\ \E r \in RowsOf(store, 100) : r.label = "A2"

-----------------------------------------------------------------------------
(* The store under requests in flight together *)

\* C2: when add_subscription requests of one owner interleave, each its
\* cap-count read followed by its write, the owner never ends up holding
\* more than 5 subscriptions.
C2_CapHoldsConcurrent == \A chat_id \in Owners : Held(chat_id) <= 5

\* C3: when add_subscription requests of different owners interleave, no
\* owner holds more than 5 subscriptions and no two rows share (owner,
\* rounded x, rounded y).
C3_OwnersIsolated ==
    /\ \A chat_id \in Owners : Held(chat_id) <= 5
    /\ \A r, q \in store :
          (r.chat_id = q.chat_id /\ r.x = q.x /\ r.y = q.y) => r.id = q.id

\* A request inserted a row and brought owner 100 to 5 rows while a request
\* of the other owner was between its cap check and its write.
C3_Witness ==
    \E i, j \in Requests :
        /\ reqs[i].pc = "done" /\ ~reqs[i].result.err /\ reqs[i].chat_id = 100
        /\ reqs[j].pc = "checked" /\ reqs[j].chat_id = 200
        /\ Held(100) = 5
        /\ \E r \in RowsOf(store, 100) : r.id > base

-----------------------------------------------------------------------------
(* The notification run *)

\* The position in the fetched list of the subscription with this id.
IndexOf(sub_id) == CHOOSE k \in 1..Len(all_subs) : all_subs[k].id = sub_id

\* The send_message calls made for the k-th fetched subscription.
Attempts(k) == {i \in 1..Len(sent) : sent[i].sub_id = all_subs[k].id}

\* A delivery to the owner of the k-th fetched subscription failed with
\* Forbidden at a subscription before it.
BlockedBefore(k) ==
    \E i \in 1..Len(sent) :
        /\ sent[i].outcome = "Forbidden"
        /\ sent[i].chat_id = all_subs[k].chat_id
        /\ IndexOf(sent[i].sub_id) < k

\* The loop is past the k-th fetched subscription.
Passed(k) == k < idx \/ pc = "done"

\* C7: in a run, once a delivery to an owner failed with Forbidden and its
\* handler has run, the store holds no subscription of that owner, and no
\* later delivery to that owner is attempted in the run.
C7_PurgedAndSilent ==
    \A i \in 1..Len(sent) :
        sent[i].outcome = "Forbidden" =>
            /\ ~(pc = "purge" /\ i = Len(sent)) => RowsOf(store, sent[i].chat_id) = {}
            /\ \A j \in 1..Len(sent) : j > i => sent[j].chat_id # sent[i].chat_id

\* The run is over; a delivery failed with Forbidden, and the fetched list
\* holds, after that subscription, another one of the same owner with a
\* message to send.
C7_Witness ==
    /\ pc = "done"
    /\ \E i \in 1..Len(sent) : \E k \in 1..Len(all_subs) :
          /\ sent[i].outcome = "Forbidden"
          /\ all_subs[k].chat_id = sent[i].chat_id
          /\ IndexOf(sent[i].sub_id) < k
          /\ BuildMessage(all_subs[k], today) # NoMessage

\* The upcoming dates of a subscription hold tomorrow and the day after.
HasBoth(sub) ==
    LET upcoming == Range(Upcoming(json_loads(sub.sweep_days), sub.sweep_schedule, today))
    IN  today + 1 \in upcoming /\ today + 2 \in upcoming

\* C8 as claimed: every subscription whose upcoming dates hold tomorrow and
\* the day after gets exactly one message in the run, the "tomorrow" one.
C8_OneTomorrowMessage ==
    pc = "done" =>
        \A k \in 1..Len(all_subs) :
            HasBoth(all_subs[k]) =>
                /\ Cardinality(Attempts(k)) = 1
                /\ \A i \in Attempts(k) : sent[i].kind = "tomorrow"

\* C8, amended: a subscription whose upcoming dates hold tomorrow and the day
\* after never gets a "2 days" message and never more than one message; once
\* the loop is past it, exactly one delivery was attempted for it, the
\* "tomorrow" message, unless its owner was blocked earlier in the run, and
\* then none.
C8_TomorrowFirst ==
    \A k \in 1..Len(all_subs) :
        HasBoth(all_subs[k]) =>
            /\ \A i \in Attempts(k) : sent[i].kind = "tomorrow"
            /\ (pc = "send" /\ idx = k) => msg[1].kind = "tomorrow"
            /\ Cardinality(Attempts(k)) <= 1
            /\ Passed(k) => (Attempts(k) = {} <=> BlockedBefore(k))

\* The run is over; one such subscription got its "tomorrow" message, another
\* was skipped because its owner had been blocked.
C8_Witness ==
    /\ pc = "done"
    /\ \E k, n \in 1..Len(all_subs) :
          /\ HasBoth(all_subs[k]) /\ Attempts(k) # {}
          /\ HasBoth(all_subs[n]) /\ BlockedBefore(n) /\ Attempts(n) = {}

\* C9: a run reaches the end of the fetched list whatever the outcomes of
\* its deliveries, and then every subscription with a message to send whose
\* owner was not blocked before it was given a delivery attempt.
C9_RunCompletes ==
    /\ (pc = "loop") ~> (pc = "done")
    /\ [](pc = "done" =>
            /\ idx = Len(all_subs) + 1
            /\ \A k \in 1..Len(all_subs) :
                  (BuildMessage(all_subs[k], today) # NoMessage /\ ~BlockedBefore(k))
                      => Attempts(k) # {})

\* The run is over; a delivery failed with an error, another with Forbidden,
\* and a delivery was attempted after each.
C9_Witness ==
    /\ pc = "done"
    /\ \E i, j \in 1..Len(sent) :
          /\ sent[i].outcome = "error" /\ i < Len(sent)
          /\ sent[j].outcome = "Forbidden" /\ j < Len(sent)

\* C10: a delivery that fails with an error other than Forbidden deletes
\* nothing from the store and leaves the blocked owners as they were, the run
\* goes on to the next subscription, and no subscription is given a second
\* delivery attempt in the run.
C10_TransientHarmless ==
    /\ [][(Len(sent') = Len(sent) + 1 /\ sent'[Len(sent')].outcome = "error") =>
            /\ store' = store
            /\ blocked_chats' = blocked_chats
            /\ pc' = "loop"
            /\ idx' = idx + 1]_vars
    /\ [](\A i, j \in 1..Len(sent) : sent[i].sub_id = sent[j].sub_id => i = j)

\* The run is over; a delivery failed with an error, and the subscription is
\* still in the store, its owner not blocked.
C10_Witness ==
    /\ pc = "done"
    /\ \E i \in 1..Len(sent) :
          /\ sent[i].outcome = "error"
          /\ sent[i].chat_id \notin blocked_chats
          /\ \E r \in store : r.id = sent[i].sub_id

-----------------------------------------------------------------------------
(* The notification run and the sweep dates of a subscription *)

\* d is a sweep date of the subscription: its weekday is one of sweep_days,
\* it is a posted date whose week is in the week set of the schedule, and it
\* is not a holiday.
IsSweepDate(sub, d) ==
    /\ \E name \in Range(json_loads(sub.sweep_days)) : strftime_A(d) = name
    /\ d \in DOMAIN SWEEP_WEEK_2026
    /\ SWEEP_WEEK_2026[d] \in valid_weeks(sub.sweep_schedule)
    /\ d \notin HOLIDAYS_2026

\* The kinds of the messages send_message was called with for the k-th
\* fetched subscription.
KindsSent(k) == {sent[i].kind : i \in Attempts(k)}

\* C11: in the run of the day before a sweep date of a subscription, a
\* "tomorrow" message for that date is built and its delivery attempted,
\* unless the owner was blocked earlier in the run.
C11_TomorrowNotified ==
    \A k \in 1..Len(all_subs) :
        (IsSweepDate(all_subs[k], today + 1) /\ ~BlockedBefore(k)) =>
            /\ (pc = "send" /\ idx = k) =>
                    (msg[1].kind = "tomorrow" /\ msg[1].date = today + 1)
            /\ Passed(k) => KindsSent(k) = {"tomorrow"}

\* The run is over; a subscription with a sweep tomorrow on the second of its
\* weekdays, and none the day after, got its "tomorrow" message.
C11_Witness ==
    /\ pc = "done"
    /\ \E k \in 1..Len(all_subs) :
          /\ IsSweepDate(all_subs[k], today + 1)
          /\ ~IsSweepDate(all_subs[k], today + 2)
          /\ strftime_A(today + 1) = json_loads(all_subs[k].sweep_days)[2]
          /\ KindsSent(k) = {"tomorrow"}

C13_OnlyForSweepDates ==
    /\ \A i \in 1..Len(sent) :
          IsSweepDate(all_subs[IndexOf(sent[i].sub_id)],
                      IF sent[i].kind = "tomorrow" THEN today + 1 ELSE today + 2)
    /\ pc = "send" =>
          /\ IsSweepDate(all_subs[idx], msg[1].date)
          /\ msg[1].date = (IF msg[1].kind = "tomorrow" THEN today + 1 ELSE today + 2)
    /\ \A k \in 1..Len(all_subs) :
          (~IsSweepDate(all_subs[k], today + 1) /\ ~IsSweepDate(all_subs[k], today + 2))
              => (Attempts(k) = {} /\ ~(pc = "send" /\ idx = k))

\* A weekday of the subscription in a week of its schedule that is a holiday.
IsHolidayMiss(sub, d) ==
    /\ \E name \in Range(json_loads(sub.sweep_days)) : strftime_A(d) = name
    /\ d \in DOMAIN SWEEP_WEEK_2026
    /\ SWEEP_WEEK_2026[d] \in valid_weeks(sub.sweep_schedule)
    /\ d \in HOLIDAYS_2026

\* The run is over and no owner was blocked; a subscription whose only
\* candidate date in the next two days is a holiday, and whose nearest sweep
\* date is three days away, got no message.
C13_Witness ==
    /\ pc = "done"
    /\ blocked_chats = {}
    /\ \E k \in 1..Len(all_subs) :
          /\ IsHolidayMiss(all_subs[k], today + 1) \/ IsHolidayMiss(all_subs[k], today + 2)
          /\ IsSweepDate(all_subs[k], today + 3)
          /\ Attempts(k) = {}

-----------------------------------------------------------------------------
(* The sweep projector *)

\* d is a sweep day for the weekday name and the schedule code: it bears the
\* name, the calendar holds it with a week of the schedule, and it is no
\* holiday.
IsSweepDay(d, sweep_day_name, schedule) ==
    /\ strftime_A(d) = sweep_day_name
    /\ d \in DOMAIN SWEEP_WEEK_2026
    /\ SWEEP_WEEK_2026[d] \in valid_weeks(schedule)
    /\ d \notin HOLIDAYS_2026

\* C14: is_sweep_today(name, schedule) is true exactly when today is not a
\* holiday, bears the weekday name, is in the posted-week calendar and its
\* week is in the week set of the schedule; it is false on every holiday.
C14_SweepTodayExact ==
    ret.op = "is_sweep_today" =>
        /\ ret.result = IsSweepDay(today, ret.sweep_day_name, ret.schedule)
        /\ today \in HOLIDAYS_2026 => ret.result = FALSE

\* is_sweep_today answered for a holiday on the weekday asked for, in a week
\* of the schedule.
C14_Witness ==
    /\ ret.op = "is_sweep_today"
    /\ today \in HOLIDAYS_2026
    /\ strftime_A(today) = ret.sweep_day_name
    /\ today \in DOMAIN SWEEP_WEEK_2026
    /\ SWEEP_WEEK_2026[today] \in valid_weeks(ret.schedule)
    /\ ret.schedule = S13
    /\ ret.result = FALSE

\* C15: every date next_sweep_dates returns is in today..today+119, bears
\* the weekday name, is in the calendar with a week of the schedule and is
\* no holiday; the dates are strictly ascending.
C15_DatesQualify ==
    ret.op = "next_sweep_dates" =>
        /\ \A i \in 1..Len(ret.result) :
              /\ today <= ret.result[i] /\ ret.result[i] < today + 120
              /\ IsSweepDay(ret.result[i], ret.sweep_day_name, ret.schedule)
        /\ \A i, j \in 1..Len(ret.result) : i < j => ret.result[i] < ret.result[j]

\* next_sweep_dates returned three dates of a schedule of two weeks, the
\* scan having passed a holiday on that weekday in a week of the schedule.
C15_Witness ==
    /\ ret.op = "next_sweep_dates"
    /\ ret.schedule = S13
    /\ Len(ret.result) = 3
    /\ \E d \in today..ret.result[3] :
          /\ d \in HOLIDAYS_2026
          /\ strftime_A(d) = ret.sweep_day_name
          /\ d \in DOMAIN SWEEP_WEEK_2026
          /\ SWEEP_WEEK_2026[d] \in valid_weeks(ret.schedule)

\* The sweep days of the scan window that starts today.
InWindow(sweep_day_name, schedule) ==
    {d \in today..(today + 119) : IsSweepDay(d, sweep_day_name, schedule)}

\* The n smallest numbers of a set, ascending.
RECURSIVE Earliest(_, _)
Earliest(dates, n) ==
    IF n = 0 \/ dates = {} THEN <<>>
    ELSE LET first == CHOOSE d \in dates : \A e \in dates : d <= e
         IN  <<first>> \o Earliest(dates \ {first}, n - 1)

C17_UnknownDayEmpty ==
    (ret.op = "next_sweep_dates"
        /\ ret.sweep_day_name \notin {"Monday", "Tuesday", "Wednesday", "Thursday", "Friday"})
            => ret.result = <<>>

\* next_sweep_dates returned for a misspelled name on a posted Monday.
C17_Witness ==
    /\ ret.op = "next_sweep_dates"
    /\ ret.sweep_day_name = "Mondy"
    /\ ret.count = 3
    /\ IsSweepDay(today, "Monday", ret.schedule)
    /\ ret.result = <<>>

-----------------------------------------------------------------------------
(* The posted-week calendar *)

Anchor(i) == SWEEP_MONDAYS_2026[i][1]
AnchorWeek(i) == SWEEP_MONDAYS_2026[i][2]

\* The dates of 2026 and the first week of 2027.
Dates == 1..MaxDate

\* C18: every date the calendar holds is a Monday..Friday with one week
\* number, in 1..4; no two anchors give a date two different numbers; the
\* five days from an anchor on are Monday..Friday and carry its number.
C18_WeekdaysOnly ==
    /\ \A d \in DOMAIN SWEEP_WEEK_2026 :
          weekday(d) \in 0..4 /\ SWEEP_WEEK_2026[d] \in 1..4
    /\ \A i, j \in 1..Len(SWEEP_MONDAYS_2026) :
          (Anchor(j) - Anchor(i) \in -4..4) => AnchorWeek(i) = AnchorWeek(j)
    /\ \A i \in 1..Len(SWEEP_MONDAYS_2026) : \A offset \in 0..4 :
          /\ weekday(Anchor(i) + offset) = offset
          /\ Anchor(i) + offset \in DOMAIN SWEEP_WEEK_2026
          /\ SWEEP_WEEK_2026[Anchor(i) + offset] = AnchorWeek(i)
    /\ ret.op = "get" =>
          /\ ret.result \in 0..4
          /\ weekday(ret.d) \in {5, 6} => ret.result = 0
          /\ ret.result = 0 <=> ret.d \notin DOMAIN SWEEP_WEEK_2026

\* The Friday of an anchor's week was looked up and gave the anchor's number.
C18_Witness ==
    /\ ret.op = "get"
    /\ \E i \in 1..Len(SWEEP_MONDAYS_2026) :
          ret.d = Anchor(i) + 4 /\ ret.result = AnchorWeek(i) /\ ret.result = 4

\* The dates of a month of 2026 the calendar holds.
PostedIn(month) == {d \in DOMAIN SWEEP_WEEK_2026 : MonthOf(d) = month}

\* C19 as claimed: the calendar holds exactly 20 dates of every month of
\* 2026, the month of the date looked up among them.
C19_TwentyPerMonth ==
    (ret.op = "get" /\ ret.d <= 365) =>
        /\ Cardinality(PostedIn(MonthOf(ret.d))) = 20
        /\ \A month \in 1..12 : Cardinality(PostedIn(month)) = 20

\* The anchors of a month of 2026.
AnchorsIn(month) ==
    {Anchor(i) : i \in {j \in 1..Len(SWEEP_MONDAYS_2026) : MonthOf(Anchor(j)) = month}}

\* d is before the first anchor of its month or after the Friday of the
\* week of its last anchor.
AtMonthEdge(d) ==
    \/ \A a \in AnchorsIn(MonthOf(d)) : d < a
    \/ \A a \in AnchorsIn(MonthOf(d)) : d > a + 4

\* C20 as claimed: the calendar holds no date of a month of 2026 that is
\* before the month's first anchor or after the Friday of its last anchor's
\* week: a lookup of such a date gives None.
C20_EdgesUnposted ==
    (ret.op = "get" /\ ret.d <= 365 /\ AtMonthEdge(ret.d)) => ret.result = 0

-----------------------------------------------------------------------------
(* _valid_weeks on every text *)

\* The characters of a text.
Markers(schedule) == Range(schedule)

\* C21: _valid_weeks returns a result for every text: {1, 3} when the text
\* holds both '1' and '3', whatever else it holds; otherwise {2, 4} when it
\* holds both '2' and '4'; otherwise {1, 2, 3, 4}.
C21_ValidWeeksTotal ==
    ret.op = "valid_weeks" =>
        /\ ret.result \in {{1, 3}, {2, 4}, {1, 2, 3, 4}}
        /\ ({"1", "3"} \subseteq Markers(ret.schedule)) => ret.result = {1, 3}
        /\ (/\ ~({"1", "3"} \subseteq Markers(ret.schedule))
            /\ {"2", "4"} \subseteq Markers(ret.schedule)) => ret.result = {2, 4}
        /\ (/\ ~({"1", "3"} \subseteq Markers(ret.schedule))
            /\ ~({"2", "4"} \subseteq Markers(ret.schedule))) => ret.result = {1, 2, 3, 4}

\* A text with all four markers was given and the odd weeks came back.
C21_Witness ==
    /\ ret.op = "valid_weeks"
    /\ {"1", "2", "3", "4"} \subseteq Markers(ret.schedule)
    /\ ret.result = {1, 3}

-----------------------------------------------------------------------------
(* Deletes of the store *)

\* The rows a delete by owner and id aims at.
Target(chat_id, sub_id) == {r \in store : r.chat_id = chat_id /\ r.id = sub_id}

\* The owner other than chat_id holds the same rows after the step.
OthersKept(chat_id) ==
    \A other \in Owners \ {chat_id} : RowsOf(store', other) = RowsOf(store, other)

\* C22: remove_subscription(owner, id) deletes at most one row and returns
\* the number of rows it deleted, 0 or 1; it deletes the row with that id
\* only when the row belongs to that owner: an id of another owner, or of no
\* row, deletes nothing and returns 0; every other row is unchanged.
C22_RemoveOne ==
    [][ret'.op = "remove" =>
        \A chat_id \in Owners : \A sub_id \in 1..(seq + 1) :
            RemoveSubscription(chat_id, sub_id) =>
                /\ Cardinality(Target(chat_id, sub_id)) <= 1
                /\ ret'.rowcount = Cardinality(store \ store')
                /\ ret'.rowcount \in {0, 1}
                /\ store' = store \ Target(chat_id, sub_id)
                /\ (\A r \in store : r.id = sub_id => r.chat_id # chat_id) =>
                       store' = store /\ ret'.rowcount = 0
                /\ OthersKept(chat_id)]_vars

\* A remove_subscription deleted one row; its owner and the other owner
\* still hold rows.
C22_Witness ==
    /\ ret.op = "remove"
    /\ ret.rowcount = 1
    /\ RowsOf(store, ret.chat_id) # {}
    /\ \E other \in Owners \ {ret.chat_id} : RowsOf(store, other) # {}

\* C23: remove_all_subscriptions(owner) deletes exactly the rows of that
\* owner and returns their number, 0 when the owner had none; afterwards the
\* owner holds no row and the rows of every other owner are unchanged.
C23_RemoveAllOfOwner ==
    [][ret'.op = "remove_all" =>
        /\ store' = store \ RowsOf(store, ret'.chat_id)
        /\ ret'.rowcount = Cardinality(RowsOf(store, ret'.chat_id))
        /\ RowsOf(store, ret'.chat_id) = {} => ret'.rowcount = 0 /\ store' = store
        /\ RowsOf(store', ret'.chat_id) = {}
        /\ OthersKept(ret'.chat_id)]_vars

\* A remove_all_subscriptions deleted several rows of an owner and the other
\* owner still holds one.
C23_Witness ==
    /\ ret.op = "remove_all"
    /\ ret.rowcount >= 2
    /\ RowsOf(store, ret.chat_id) = {}
    /\ \E other \in Owners \ {ret.chat_id} : RowsOf(store, other) # {}

-----------------------------------------------------------------------------
(* Listing and unsubscribing by position *)

\* The id and the location of each row of a list, in the list's order.
Places(rows) == [i \in 1..Len(rows) |-> <<rows[i].id, rows[i].x, rows[i].y>>]

\* The rows of the next store whose id the store did not hold.
Inserted == {r \in store' : \A q \in store : q.id # r.id}

\* C24: get_user_subscriptions(owner) returns the owner's rows and no
\* others, each once, by ascending id; this is the order in which the
\* locations were first inserted: an add_subscription that inserts puts its
\* location last, one that updates a location leaves every position as it was.
C24_ListedInOrder ==
    /\ [](ret.op = "get_user_subscriptions" =>
            /\ Range(ret.rows) = RowsOf(store, ret.chat_id)
            /\ Len(ret.rows) = Cardinality(RowsOf(store, ret.chat_id))
            /\ \A i, j \in 1..Len(ret.rows) : i < j => ret.rows[i].id < ret.rows[j].id)
    /\ [][ret'.op = "add" =>
            LET before == Places(get_user_subscriptions(store, ret'.chat_id))
                after == Places(get_user_subscriptions(store', ret'.chat_id))
            IN  IF Inserted = {} THEN after = before
                ELSE \E r \in Inserted : after = Append(before, <<r.id, r.x, r.y>>)]_vars

\* An owner's list of several rows came back with the row of id 1 first,
\* after an add_subscription had updated that row; the other owner holds a
\* row the list leaves out.
C24_Witness ==
    /\ ret.op = "get_user_subscriptions"
    /\ Len(ret.rows) >= 2
    /\ ret.rows[1].id = 1 /\ ret.rows[1].label = "A2"
    /\ \E r \in store : r.chat_id # ret.chat_id

\* C30: handle_unsubscribe with a number N from 1 to the number of the
\* owner's subscriptions removes the N-th of them by ascending id and no
\* other row; with N = 0 or N above that number it removes nothing; with
\* 'all' it removes every row of the owner and none of another owner.
C30_UnsubscribeByPosition ==
    [][ret'.op = "unsubscribe" =>
        \A text \in UnsubscribeTexts :
            Unsubscribe(ret'.chat_id, text) =>
                LET subs == get_user_subscriptions(store, ret'.chat_id) IN
                /\ \A N \in 0..MaxPos :
                      text = ToString(N) =>
                          store' = IF 1 <= N /\ N <= Len(subs) THEN store \ {subs[N]}
                                   ELSE store
                /\ text = "all" => store' = store \ RowsOf(store, ret'.chat_id)]_vars

\* The second of an owner's subscriptions with the ids 1, 3 and 4 was
\* removed, the row of id 3, and the other owner holds a row.
C30_Witness ==
    /\ ret.op = "unsubscribe"
    /\ ret.reply.kind = "removed"
    /\ ret.reply.label = "A4"
    /\ {r.id : r \in RowsOf(store, ret.chat_id)} = {1, 4}
    /\ \E r \in store : r.chat_id # ret.chat_id

-----------------------------------------------------------------------------
(* get_sweep_details *)

\* The records the call got: those of the first query that returned any.
Returned == IF ret.near = <<>> THEN ret.far ELSE ret.near

\* The returned records with a posted weekday, by their positions.
Posted == {i \in 1..Len(Returned) : Returned[i].Posted_Day \notin {NONE, ""}}

\* How many records with a posted weekday carry the street name.
Votes(name) == Cardinality({i \in Posted : Returned[i].STNAME = name})

\* The first position of a weekday among the records kept.
FirstSeen(day) ==
    CHOOSE i \in 1..Len(ret.result.routes) :
        /\ ret.result.routes[i].Posted_Day = day
        /\ \A j \in 1..(i - 1) : ret.result.routes[j].Posted_Day # day

\* C25: get_sweep_details returns found = false exactly when no returned
\* record has a posted weekday; otherwise the records it keeps are the ones
\* with a posted weekday on one street that no street outvotes, in their
\* order, and sweep_days holds each weekday of the kept records once, in
\* the order the weekdays are first seen.
C25_PrimaryStreet ==
    ret.op = "get_sweep_details" =>
        /\ ret.result.found <=> Posted # {}
        /\ ret.result.found =>
            /\ \E i \in Posted :
                  /\ \A j \in Posted : Votes(Returned[j].STNAME) <= Votes(Returned[i].STNAME)
                  /\ ret.result.routes =
                        SelectSeq(Returned, LAMBDA r : /\ r.Posted_Day \notin {NONE, ""}
                                                        /\ r.STNAME = Returned[i].STNAME)
            /\ Range(ret.result.sweep_days) =
                   {ret.result.routes[i].Posted_Day : i \in 1..Len(ret.result.routes)}
            /\ \A a, b \in 1..Len(ret.result.sweep_days) :
                  a < b => FirstSeen(ret.result.sweep_days[a]) < FirstSeen(ret.result.sweep_days[b])

\* Three records with a weekday came back, the first of a street the other
\* two outvote, the two with Tuesday before Monday: the two were kept.
C25_Witness ==
    /\ ret.op = "get_sweep_details"
    /\ Len(Returned) = 3 /\ Posted = {1, 2, 3}
    /\ Returned[1].STNAME # Returned[2].STNAME
    /\ Len(ret.result.routes) = 2
    /\ ret.result.sweep_days = <<"Tuesday", "Monday">>

-----------------------------------------------------------------------------
(* next_sweep_dates and its count *)

\* C26 as claimed: for every count >= 0, next_sweep_dates returns at most
\* count dates, so none for count = 0.
C26_AtMostCount ==
    ret.op = "next_sweep_dates" => Len(ret.result) <= ret.count

-----------------------------------------------------------------------------
(* The notification run: attempts, purges and the store *)

\* The deliveries to an owner that failed with Forbidden in the run so far.
Refusals(chat_id) ==
    {i \in 1..Len(sent) : sent[i].chat_id = chat_id /\ sent[i].outcome = "Forbidden"}

\* C27: in a run, every delivery attempt is for a fetched subscription and
\* no subscription gets two; remove_all_subscriptions is called at most once
\* for an owner: when the run is at the call, the delivery just refused is
\* the only one refused for that owner, and no owner has two refusals.
C27_OncePerRun ==
    /\ \A i \in 1..Len(sent) : \E k \in 1..Len(all_subs) : all_subs[k].id = sent[i].sub_id
    /\ \A i, j \in 1..Len(sent) : sent[i].sub_id = sent[j].sub_id => i = j
    /\ \A chat_id \in Owners : Cardinality(Refusals(chat_id)) <= 1
    /\ pc = "purge" => Refusals(all_subs[idx].chat_id) = {Len(sent)}

\* The run is over: two owners were purged, each after one refusal, and a
\* later subscription of one of them got no attempt.
C27_Witness ==
    /\ pc = "done"
    /\ \A chat_id \in Owners : Cardinality(Refusals(chat_id)) = 1
    /\ Len(sent) < Len(all_subs)
    /\ \A k \in 1..Len(all_subs) : BuildMessage(all_subs[k], today) # NoMessage

\* The rows a run fetched for an owner.
FetchedOf(chat_id) == {r \in Range(all_subs) : r.chat_id = chat_id}

\* C28: a run changes the store only by purging owners whose delivery was
\* refused with Forbidden: the store holds no row the run did not fetch, an
\* owner with no refusal in the run holds the rows the run fetched for it,
\* and with no refusal at all the store is the fetched one.
C28_OnlyPurges ==
    pc # "idle" =>
        /\ store \subseteq Range(all_subs)
        /\ \A chat_id \in Owners :
              Refusals(chat_id) = {} => RowsOf(store, chat_id) = FetchedOf(chat_id)
        /\ (\A i \in 1..Len(sent) : sent[i].outcome # "Forbidden") => store = Range(all_subs)

\* The run is over: one owner was purged, the other had a delivery made or
\* failed with an error and holds the rows it held.
C28_Witness ==
    /\ pc = "done"
    /\ \E chat_id \in Owners : \E other \in Owners :
          /\ Refusals(chat_id) # {} /\ RowsOf(store, chat_id) = {}
          /\ Refusals(other) = {}
          /\ \E i \in 1..Len(sent) : sent[i].chat_id = other
          /\ RowsOf(store, other) # {} /\ RowsOf(store, other) = FetchedOf(other)

-----------------------------------------------------------------------------
(* is_sweep_today against next_sweep_dates *)

\* C29: is_sweep_today(name, schedule) is true exactly when
\* next_sweep_dates(name, schedule, count=1) returns the list of today alone,
\* for every name, the names that are no key of DAY_NUM among them, every
\* schedule and every day: whichever of the two is called, the other gives
\* the matching answer on that day.
C29_AgreeOnToday ==
    /\ ret.op = "is_sweep_today" =>
          (ret.result <=>
              next_sweep_dates(ret.sweep_day_name, ret.schedule, 1, today) = <<today>>)
    /\ (ret.op = "next_sweep_dates" /\ ret.count = 1) =>
          ((ret.result = <<today>>) <=>
              is_sweep_today(ret.sweep_day_name, ret.schedule, today))

\* is_sweep_today answered yes for a route of the even weeks.
C29_Witness ==
    /\ ret.op = "is_sweep_today"
    /\ ret.result = TRUE
    /\ ret.schedule = S24
    /\ next_sweep_dates(ret.sweep_day_name, ret.schedule, 1, today) = <<today>>

-----------------------------------------------------------------------------
(* The notification run with /unsubscribe requests in between *)

\* C31 as claimed: with /unsubscribe requests served during a run, the row
\* the run starts a delivery for, when it starts it, is in the store: a
\* subscription removed after the fetch gets no delivery attempt.
C31_AttemptsOnlyStored ==
    [][(pc = "loop" /\ pc' = "send") => all_subs[idx'] \in store']_vars

====
